---- MODULE Spec2Model ----
(***************************************************************************)
(* A model of alienprobe: the level registry (log_levels.py), the logger   *)
(* facade AlienLogger with its dispatcher fan-out and configuration reload *)
(* (alien_logger.py), and the process-wide accessor get_logger.            *)
(*                                                                         *)
(* The specifications of the module:                                       *)
(*   Spec          threads logging through and reloading one AlienLogger   *)
(*   SpecCalls     one thread, every method, argument and configuration    *)
(*   SpecSingleton threads calling get_logger()                            *)
(*   SpecLevels    LogLevels.get_level_by_name / get_log_level_by_id, and  *)
(*                 LogLevel.__eq__                                         *)
(*   SpecFormat    BaseDispatcher.format_message                           *)
(* Python strings are sequences of one-character strings, so that strip(), *)
(* lower(), replace() and the substring test are computed and not assumed. *)
(* A [[...]] token of a template is one element of such a sequence.        *)
(***************************************************************************)
EXTENDS Naturals, Integers, Sequences, FiniteSets, TLC

VARIABLES
    \* ---- one AlienLogger instance (Spec) ----
    logger_config,      \* self.logger_config: the configuration last loaded
    default_log_level,  \* self.default_log_level
    dispatchers,        \* self.dispatchers: a reference (index into heap) to a dict
    heap,               \* the dict objects ever bound to self.dispatchers
    pc,                 \* per thread: where it is inside load_config / log_internal
    frame,              \* per thread: the locals of the running method
    calls,              \* every log_internal call made so far, with its outcome
    writes,             \* every write_message invocation, in the order they ran
    loads,              \* every load_config call made so far, with its outcome
    instance_id,        \* self.instance_id
    machine_name,       \* self.machine_name
    \* ---- the module global and get_logger (SpecSingleton) ----
    _GLOBAL_LOGGER,     \* 0 is None, n > 0 the n-th AlienLogger constructed
    env_config_set,     \* whether ALIENLOGGER__CONFIG_FILE_PATH names a loadable file
    constructed,        \* how many AlienLogger objects were constructed
    gpc,                \* per thread: where it is inside get_logger
    gnew,               \* per thread: the AlienLogger it has just constructed
    gret,               \* per thread: what its get_logger calls returned, in order
    \* ---- the level registry (SpecLevels) ----
    lvl_in,             \* the argument of the lookup
    lvl_out,            \* its result
    cmp_in,             \* the operands of a comparison self == other
    cmp_out,            \* what LogLevel.__eq__ gave for them
    \* ---- BaseDispatcher.format_message (SpecFormat) ----
    fmt_in,             \* the arguments of format_message
    fmt_out             \* what it returned or raised, and the params it left

facadeVars == <<logger_config, default_log_level, dispatchers, heap, pc, frame,
                calls, writes, loads, instance_id, machine_name>>
globalVars == <<_GLOBAL_LOGGER, env_config_set, constructed, gpc, gnew, gret>>
levelVars == <<lvl_in, lvl_out, cmp_in, cmp_out>>
formatVars == <<fmt_in, fmt_out>>
vars == <<logger_config, default_log_level, dispatchers, heap, pc, frame,
          calls, writes, loads, instance_id, machine_name,
          _GLOBAL_LOGGER, env_config_set, constructed, gpc, gnew, gret,
          lvl_in, lvl_out, cmp_in, cmp_out, fmt_in, fmt_out>>

(***************************************************************************)
(* Bounds.                                                                 *)
(***************************************************************************)
\* whitespace characters put before and after a level name
MaxPad == 1
\* ids looked up run from -IdMargin to 7 + IdMargin
IdMargin == 2
\* pieces (tokens and characters of free text) of a message_format
MaxTemplate == 2
\* entries of a params dict
MaxParams == 2

(***************************************************************************)
(* Python str operations on sequences of characters.                       *)
(***************************************************************************)
LowerLetters == <<"a","b","c","d","e","f","g","h","i","j","k","l","m",
                  "n","o","p","q","r","s","t","u","v","w","x","y","z">>
UpperLetters == <<"A","B","C","D","E","F","G","H","I","J","K","L","M",
                  "N","O","P","Q","R","S","T","U","V","W","X","Y","Z">>
Whitespace == {" ", "\t", "\n"}

\* str.lower() on one character
LowerChar(c) ==
    IF \E i \in 1..26 : UpperLetters[i] = c
    THEN LowerLetters[CHOOSE i \in 1..26 : UpperLetters[i] = c]
    ELSE c

\* str.upper() on one character
UpperChar(c) ==
    IF \E i \in 1..26 : LowerLetters[i] = c
    THEN UpperLetters[CHOOSE i \in 1..26 : LowerLetters[i] = c]
    ELSE c

\* str.lower()
StrLower(s) == [i \in 1..Len(s) |-> LowerChar(s[i])]

\* str.strip(): drop the leading and the trailing whitespace
StrStrip(s) ==
    LET keep == {i \in 1..Len(s) : s[i] \notin Whitespace}
    IN  IF keep = {} THEN <<>>
        ELSE LET lo == CHOOSE i \in keep : \A j \in keep : i <= j
                 hi == CHOOSE i \in keep : \A j \in keep : j <= i
             IN  SubSeq(s, lo, hi)

\* Python's `a in b` on strings: a is a contiguous substring of b
StrIn(a, b) ==
    \E k \in 0..(Len(b) - Len(a)) : SubSeq(b, k + 1, k + Len(a)) = a

(***************************************************************************)
(* log_levels.py: LogLevel and the two tables of LogLevels.                *)
(***************************************************************************)
LogLevel(name, level_id) == [name |-> name, level_id |-> level_id]

s_trace == <<"t","r","a","c","e">>
s_debug == <<"d","e","b","u","g">>
s_info == <<"i","n","f","o">>
s_notice == <<"n","o","t","i","c","e">>
s_warning == <<"w","a","r","n","i","n","g">>
s_warn == <<"w","a","r","n">>
s_error == <<"e","r","r","o","r">>
s_critical == <<"c","r","i","t","i","c","a","l">>
s_fatal == <<"f","a","t","a","l">>

\* log_levels_by_name, as the ordered (key, value) pairs of the dict
log_levels_by_name ==
    << <<s_trace, LogLevel(s_trace, 0)>>,
       <<s_debug, LogLevel(s_debug, 1)>>,
       <<s_info, LogLevel(s_info, 2)>>,
       <<s_notice, LogLevel(s_notice, 3)>>,
       <<s_warning, LogLevel(s_warning, 4)>>,
       <<s_warn, LogLevel(s_warn, 4)>>,
       <<s_error, LogLevel(s_error, 5)>>,
       <<s_critical, LogLevel(s_critical, 6)>>,
       <<s_fatal, LogLevel(s_fatal, 7)>> >>

\* log_levels_by_id, as the ordered (key, value) pairs of the dict
log_levels_by_id ==
    << <<0, LogLevel(s_trace, 0)>>,
       <<1, LogLevel(s_debug, 1)>>,
       <<2, LogLevel(s_info, 2)>>,
       <<3, LogLevel(s_notice, 3)>>,
       <<4, LogLevel(s_warn, 4)>>,
       <<5, LogLevel(s_error, 5)>>,
       <<6, LogLevel(s_critical, 6)>>,
       <<7, LogLevel(s_fatal, 7)>> >>

\* results of a lookup: a LogLevel, None, or an exception raised to the caller
Found(level) == [kind |-> "level", level |-> level]
None == [kind |-> "None"]
Raised(exc) == [kind |-> "raise", exc |-> exc]
Pending == [kind |-> "pending"]

\* a Python object: its class and its value
Obj(type, value) == [type |-> type, value |-> value]

\* a method returning an object: its class and what `if` makes of it (a bool
\* is its own truth value; an exception object counts as true)
Returned(type, truth) == [kind |-> "return", type |-> type, truth |-> truth]

\* an __eq__ that compares the names as well as the ids
EqByNameAndId(self, other) ==
    IF other.type # "LogLevel"
    THEN Returned("ValueError", TRUE)
    ELSE Returned("bool", self.value = other.value)

\* LogLevel.__eq__(self, other): for another class the ValueError is built and
\* handed back by `return`, it is not raised
__eq__(self, other) ==
    IF other.type # "LogLevel"
    THEN Returned("ValueError", TRUE)
    ELSE Returned("bool", self.value.level_id = other.value.level_id)

\* d[key] on a dict given as ordered pairs: the value, or KeyError
DictGet(d, key) ==
    IF \E i \in 1..Len(d) : d[i][1] = key
    THEN Found(d[CHOOSE i \in 1..Len(d) : d[i][1] = key][2])
    ELSE Raised("KeyError")

\* a normalisation that lower-cases and does not trim
NormalizeNoStrip(str_name) == StrLower(str_name)

\* the normalisation of get_level_by_name: str_name.strip().lower()
Normalize(str_name) == StrLower(StrStrip(str_name))

\* the for loop of get_level_by_name over the keys, from the i-th on
RECURSIVE NameLoop(_, _)
NameLoop(str_name, i) ==
    IF i > Len(log_levels_by_name) THEN None
    ELSE IF StrIn(str_name, log_levels_by_name[i][1])
         THEN DictGet(log_levels_by_name, str_name)
         ELSE NameLoop(str_name, i + 1)

get_level_by_name(str_name) ==
    IF str_name = <<>> THEN None
    ELSE NameLoop(Normalize(str_name), 1)

\* the for loop of get_log_level_by_id over the keys, from the i-th on
RECURSIVE IdLoop(_, _)
IdLoop(level_id, i) ==
    IF i > Len(log_levels_by_id) THEN None
    ELSE IF log_levels_by_id[i][1] = level_id
         THEN Found(log_levels_by_id[i][2])
         ELSE IdLoop(level_id, i + 1)

\* Python's truth value of an int
IntTruthy(n) == n # 0

get_log_level_by_id(level_id) ==
    IF ~IntTruthy(level_id) THEN None
    ELSE IdLoop(level_id, 1)

(***************************************************************************)
(* The configuration handed to load_config (the parsed TOML file).         *)
(* A dispatcher is named by its position in common.dispatchers; sections   *)
(* says what the file holds under that name.                               *)
(***************************************************************************)
\* threads sharing the one AlienLogger
NumThreads == 2
\* names listed in common.dispatchers
MaxDispatchers == 2
\* load_config calls after construction
MaxLoads == 2
\* log calls made by the application
MaxCalls == 2
\* load_config calls and log calls of the application together
MaxOps == 2

Threads == 1..NumThreads
DispatcherNames == 1..MaxDispatchers

\* what the config file holds for a dispatcher name:
\*   console        a section naming alienprobe's ConsoleDispatcher
\*   custom         a section naming a dispatcher class of the application ("You
\*                  can write your own!"): a BaseDispatcher whose write_message
\*                  renders with format_message, emits the line and returns True
\*   custom_nodate  the same with datetime_format = ""
\*   null           a section naming alienprobe's NullDispatcher
\*   noclass        a section without dispatcher_class_name
\*   missing        no section
SectionKinds == {"console", "custom", "custom_nodate", "null", "noclass", "missing"}
ClassKinds == {"console", "custom", "custom_nodate", "null"}

\* the classes importlib.import_module can load.  The class body of
\* ConsoleDispatcher builds color_mappings, a dict keyed by LogLevel objects;
\* LogLevel defines __eq__ and no __hash__, so the dict display raises
\* TypeError (unhashable type: 'LogLevel') and the module cannot be imported.
ImportableKinds == {"custom", "custom_nodate", "null"}

\* the default_log_level key of the file: absent, or a string
LevelAbsent == [present |-> FALSE, text |-> <<>>]
ConfigLevelOptions == {LevelAbsent}

ConfigOf(kinds, lvl) ==
    [list |-> [i \in 1..Len(kinds) |-> i],
     sections |-> [n \in DispatcherNames |->
                      IF n <= Len(kinds) THEN kinds[n] ELSE "missing"],
     default_log_level |-> lvl]

KindLists(K) == UNION {[1..n -> K] : n \in 1..MaxDispatchers}

\* the configurations the threads of Spec reload
ThreadKinds == {"custom", "custom_nodate", "null", "noclass", "missing"}
Configs == {ConfigOf(ks, lvl) : ks \in KindLists(ThreadKinds), lvl \in ConfigLevelOptions}

\* starting configurations, from which AlienLogger() returns: every section
\* resolves and the "Logger Initialized" message passes every dispatcher
StartKinds == {"custom", "null"}
StartConfigs ==
    {ConfigOf(ks, lvl) : ks \in [1..MaxDispatchers -> StartKinds], lvl \in ConfigLevelOptions}

\* self.logger_config.get('default_log_level', 'info')
ConfigLevelName(cfg) ==
    IF cfg.default_log_level.present THEN cfg.default_log_level.text ELSE s_info

(***************************************************************************)
(* Dispatchers: NullDispatcher and the BaseDispatcher subclasses of the    *)
(* application.                                                            *)
(***************************************************************************)
\* the object MyDispatcher() made by the load numbered gen for a name
DispatcherInstance(name, kind, gen) == [name |-> name, kind |-> kind, gen |-> gen]

\* BaseDispatcher.format_message up to its datetime_format check: False when it
\* raises ValueError("No Valid datetime_format configured ...")
FormatSucceeds(disp) == disp.kind # "custom_nodate"

\* what a write_message call gives: its outcome ("True", "None" or "raise"),
\* the exception of a raise, whether it put a line on its sink, whether it
\* ran format_message, and the Message object as it leaves it
WriteOutcome(result, exc, emitted, rendered, msg) ==
    [result |-> result, exc |-> exc, emitted |-> emitted, rendered |-> rendered,
     msg |-> msg]

\* NullDispatcher.write_message: the body is `pass`, so the call gives None;
\* nothing is rendered and nothing emitted
NullWrite(msg) == WriteOutcome("None", "none", FALSE, FALSE, msg)

\* write_message of a dispatcher of the application, the body that
\* ConsoleDispatcher.write_message has: format_message, print, return True.
\* format_message raises TypeError for a message with an exception
\* (traceback.format_exception is called with `value=ex` alone), ValueError
\* for an empty datetime_format, and otherwise replaces falsy params of the
\* Message by {} before it renders them
CustomWrite(disp, msg) ==
    IF msg.ex # "None" THEN WriteOutcome("raise", "TypeError", FALSE, TRUE, msg)
    ELSE IF ~FormatSucceeds(disp) THEN WriteOutcome("raise", "ValueError", FALSE, TRUE, msg)
    ELSE WriteOutcome("True", "none", TRUE, TRUE,
                      [msg EXCEPT !.params = IF @ \in {"dict", "list"} THEN @ ELSE "empty_dict"])

write_message(disp, msg) ==
    IF disp.kind = "null" THEN NullWrite(msg) ELSE CustomWrite(disp, msg)

(***************************************************************************)
(* Python dict and its iterator, as far as self.dispatchers uses them.     *)
(***************************************************************************)
\* d[key] = value: in place when the key is there, appended otherwise
DictSet(d, key, value) ==
    IF \E i \in 1..Len(d) : d[i].key = key
    THEN [i \in 1..Len(d) |-> IF d[i].key = key THEN [key |-> key, value |-> value] ELSE d[i]]
    ELSE Append(d, [key |-> key, value |-> value])

DictValues(d) == [i \in 1..Len(d) |-> d[i].value]

\* iter(d.values()): remembers the dict object and its size
DictIter(ref, d) == [dict |-> ref, used |-> Len(d), pos |-> 0]

(***************************************************************************)
(* The arguments of a log call.                                            *)
(***************************************************************************)
\* log_params: None, a non-empty dict, an empty non-dict ([] or ""), a
\* non-empty non-dict ([1] or "x"); "empty_dict" ({}) is understood by the two
\* tests below
ParamKinds == {"None", "dict", "empty_list", "list"}
ParamsTruthy(p) == p \in {"dict", "list"}
ParamsIsDict(p) == p \in {"empty_dict", "dict"}

\* a check that lets every params through
ParamsNeverRejected(p) == FALSE

\* log_internal's check: log_params and not isinstance(log_params, dict)
ParamsRejected(p) == ParamsTruthy(p) /\ ~ParamsIsDict(p)

Args(source, static, params, ex) ==
    [source |-> source, static |-> static, params |-> params, ex |-> ex]

\* the arguments of load_config's own call: self.info(self, "Logger
\* Initialized", {"machine_name": ..., "start_time": ..., "utc_start_time": ...})
SelfLogArgs == Args("object", "Logger Initialized", "dict", "None")

\* the per-level methods of AlienLogger and the LogLevels constant each passes
LogMethods == {"trace", "debug", "info", "notice", "warning", "warn", "error",
               "critical", "fatal"}

MethodLevel(m) ==
    CASE m = "trace" -> LogLevel(s_trace, 0)
      [] m = "debug" -> LogLevel(s_debug, 1)
      [] m = "info" -> LogLevel(s_info, 2)
      [] m = "notice" -> LogLevel(s_notice, 3)
      [] m = "warning" -> LogLevel(s_warning, 4)
      [] m = "warn" -> LogLevel(s_warning, 4)
      [] m = "error" -> LogLevel(s_error, 5)
      [] m = "critical" -> LogLevel(s_critical, 6)
      [] m = "fatal" -> LogLevel(s_fatal, 7)

\* the Message object log_internal fills in (lines 159-166)
MessageWithoutIdentity(level, args, iid, machine) ==
    [level |-> level, class_name |-> args.source, message_static |-> args.static,
     params |-> args.params, ex |-> args.ex, instance_id |-> "UNKNOWN", machine_name |-> "Unknown"]

Message(level, args, iid, machine) ==
    [level |-> level, class_name |-> args.source, message_static |-> args.static,
     params |-> args.params, ex |-> args.ex, instance_id |-> iid, machine_name |-> machine]

(***************************************************************************)
(* AlienLogger: load_config, _init_dispatchers and log_internal, run by    *)
(* threads that share the instance.  No statement of the class takes       *)
(* _output_mutex (it is declared None and never assigned), so a thread may *)
(* be pre-empted between any two steps below.                              *)
(***************************************************************************)
Idle == [op |-> "none"]

\* the record kept of a call: its arguments, the dict it iterates and what
\* that dict held when the call began, whether a load_config of another thread
\* was building a dict at that moment, the default level at that moment, and
\* how the call ended
CallRecord(t, method, args, load, ref, d) ==
    [thread |-> t, method |-> method, level |-> MethodLevel(method),
     source |-> args.source, static |-> args.static, params |-> args.params, ex |-> args.ex,
     load |-> load, dict |-> ref, snapshot |-> DictValues(d),
     settled |-> \A u \in Threads \ {t} : pc[u] # "init_dispatchers",
     default |-> default_log_level,
     status |-> "running", exc |-> "none"]

UserCalls == {c \in 1..Len(calls) : calls[c].load = 0}

\* how a load_config that raised is recorded
LoadRaised(rec, exc, named) == [rec EXCEPT !.status = "raised", !.exc = exc, !.named = named]

\* log_internal, lines 155-168: the params check, the Message, and the iterator
\* of the for loop over self.dispatchers.values().  load > 0 marks the
\* self.info(...) call that ends load_config.
StartLog(t, method, args, load) ==
    LET d == heap[dispatchers]
        rec == CallRecord(t, method, args, load, dispatchers, d)
    IN  IF ParamsRejected(args.params)
        THEN /\ calls' = Append(calls, [rec EXCEPT !.status = "raised", !.exc = "ValueError"])
             /\ pc' = [pc EXCEPT ![t] = "idle"]
             /\ frame' = [frame EXCEPT ![t] = Idle]
             /\ loads' = IF load = 0 THEN loads
                         ELSE [loads EXCEPT ![load] = LoadRaised(@, "ValueError", 0)]
        ELSE /\ calls' = Append(calls, rec)
             /\ pc' = [pc EXCEPT ![t] = "fanout"]
             /\ frame' = [frame EXCEPT ![t] =
                            [op |-> "log", call |-> Len(calls) + 1, load |-> load,
                             msg_obj |-> Message(rec.level, args, instance_id, machine_name),
                             iter |-> DictIter(dispatchers, d)]]
             /\ loads' = loads

\* a log call that also makes its level the default level of the instance
LogCallSetsDefault(t, method, args) ==
    /\ pc[t] = "idle"
    /\ Cardinality(UserCalls) < MaxCalls
    /\ Cardinality(UserCalls) + Len(loads) < MaxOps
    /\ StartLog(t, method, args, 0)
    /\ default_log_level' = Found(MethodLevel(method))
    /\ UNCHANGED <<logger_config, dispatchers, heap, writes, instance_id, machine_name>>
    /\ UNCHANGED <<globalVars, levelVars, formatVars>>

\* a call of one of the per-level methods (trace .. fatal) by the application
LogCall(t, method, args) ==
    /\ pc[t] = "idle"
    /\ Cardinality(UserCalls) < MaxCalls
    /\ Cardinality(UserCalls) + Len(loads) < MaxOps
    /\ StartLog(t, method, args, 0)
    /\ UNCHANGED <<logger_config, default_log_level, dispatchers, heap, writes,
                   instance_id, machine_name>>
    /\ UNCHANGED <<globalVars, levelVars, formatVars>>

\* the end of a log_internal call: it returns, or an exception leaves it (and
\* leaves load_config too, when the call is its self.info)
FinishLog(t, status, exc) ==
    LET f == frame[t]
    IN  /\ calls' = [calls EXCEPT ![f.call].status = status, ![f.call].exc = exc]
        /\ loads' = IF f.load = 0 THEN loads
                    ELSE IF status = "returned"
                    THEN [loads EXCEPT ![f.load].status = "returned"]
                    ELSE [loads EXCEPT ![f.load] = LoadRaised(@, exc, 0)]
        /\ pc' = [pc EXCEPT ![t] = "idle"]
        /\ frame' = [frame EXCEPT ![t] = Idle]

\* one round of `for disp in self.dispatchers.values(): disp.write_message(...)`
FanoutStep(t) ==
    /\ pc[t] = "fanout"
    /\ LET f == frame[t]
           d == heap[f.iter.dict]
       IN  IF f.iter.used # Len(d)
           THEN \* RuntimeError: dictionary changed size during iteration
                /\ FinishLog(t, "raised", "RuntimeError")
                /\ writes' = writes
           ELSE IF f.iter.pos >= Len(d)
           THEN \* the loop is over: log_internal returns None
                /\ FinishLog(t, "returned", "none")
                /\ writes' = writes
           ELSE LET disp == d[f.iter.pos + 1].value
                    out == write_message(disp, f.msg_obj)
                IN  /\ writes' = Append(writes,
                                        [call |-> f.call, disp |-> disp, msg |-> f.msg_obj,
                                         result |-> out.result, emitted |-> out.emitted,
                                         rendered |-> out.rendered])
                    /\ IF out.result = "raise"
                       THEN FinishLog(t, "raised", out.exc)
                       ELSE /\ frame' = [frame EXCEPT ![t].iter.pos = f.iter.pos + 1,
                                                      ![t].msg_obj = out.msg]
                            /\ UNCHANGED <<pc, calls, loads>>
    /\ UNCHANGED <<logger_config, default_log_level, dispatchers, heap,
                   instance_id, machine_name>>
    /\ UNCHANGED <<globalVars, levelVars, formatVars>>

\* load_config, lines 83-96, and _init_dispatchers up to its for loop (lines
\* 109-111): the file is read, the default level looked up, self.dispatchers
\* bound to a new empty dict
LoadConfig(t, cfg) ==
    /\ pc[t] = "idle"
    /\ Len(loads) < MaxLoads
    /\ Cardinality(UserCalls) + Len(loads) < MaxOps
    /\ LET lvl == get_level_by_name(ConfigLevelName(cfg))
           rec == [thread |-> t, config |-> cfg, status |-> "running", exc |-> "none",
                   named |-> 0, hit |-> [name |-> 0, kind |-> "none"]]
       IN  /\ logger_config' = cfg
           /\ IF lvl.kind = "raise"
              THEN /\ loads' = Append(loads, LoadRaised(rec, lvl.exc, 0))
                   /\ UNCHANGED <<default_log_level, dispatchers, heap, pc, frame>>
              ELSE /\ loads' = Append(loads, rec)
                   /\ default_log_level' = lvl
                   /\ heap' = Append(heap, <<>>)
                   /\ dispatchers' = Len(heap) + 1
                   /\ pc' = [pc EXCEPT ![t] = "init_dispatchers"]
                   /\ frame' = [frame EXCEPT ![t] =
                                  [op |-> "load", load |-> Len(loads) + 1,
                                   names |-> cfg.list, i |-> 1]]
    /\ UNCHANGED <<calls, writes, instance_id, machine_name>>
    /\ UNCHANGED <<globalVars, levelVars, formatVars>>

NoError == [exc |-> "none", named |-> 0]

\* a loop that raises ValueError without saying for which dispatcher
ResolveErrorUnnamed(name, kind) ==
    CASE kind \in {"missing", "noclass"} -> [exc |-> "ValueError", named |-> 0]
      [] kind = "console" -> [exc |-> "TypeError", named |-> 0]
      [] OTHER -> NoError

\* what stops the loop of _init_dispatchers at a name: ValueError("Could not
\* find dispatcher {name} configuration ...") without a section, ValueError(
\* "Dispatcher {name} does not have a class name entry ...") without
\* dispatcher_class_name, the TypeError of importing console_dispatcher
ResolveError(name, kind) ==
    CASE kind = "missing" -> [exc |-> "ValueError", named |-> name]
      [] kind = "noclass" -> [exc |-> "ValueError", named |-> name]
      [] kind \in ClassKinds \ ImportableKinds -> [exc |-> "TypeError", named |-> 0]
      [] OTHER -> NoError

\* one round of the for loop of _init_dispatchers (lines 112-132); after the
\* last, load_config goes on to self.info(self, "Logger Initialized", {...})
InitDispatchersStep(t) ==
    /\ pc[t] = "init_dispatchers"
    /\ LET f == frame[t]
       IN  IF f.i > Len(f.names)
           THEN /\ StartLog(t, "info", SelfLogArgs, f.load)
                /\ UNCHANGED <<heap>>
           ELSE LET name == f.names[f.i]
                    kind == logger_config.sections[name]
                    err == ResolveError(name, kind)
                IN  IF err # NoError
                    THEN /\ loads' = [loads EXCEPT ![f.load] =
                                        [LoadRaised(@, err.exc, err.named) EXCEPT
                                            !.hit = [name |-> name, kind |-> kind]]]
                         /\ pc' = [pc EXCEPT ![t] = "idle"]
                         /\ frame' = [frame EXCEPT ![t] = Idle]
                         /\ UNCHANGED <<heap, calls>>
                    ELSE /\ heap' = [heap EXCEPT ![dispatchers] =
                                        DictSet(@, name, DispatcherInstance(name, kind, f.load))]
                         /\ frame' = [frame EXCEPT ![t].i = f.i + 1]
                         /\ UNCHANGED <<pc, calls, loads>>
    /\ UNCHANGED <<logger_config, default_log_level, dispatchers, writes,
                   instance_id, machine_name>>
    /\ UNCHANGED <<globalVars, levelVars, formatVars>>

\* the dict a completed _init_dispatchers builds from a configuration
RECURSIVE BuildDict(_, _, _)
BuildDict(cfg, gen, n) ==
    IF n = 0 THEN <<>>
    ELSE DictSet(BuildDict(cfg, gen, n - 1), cfg.list[n],
                 DispatcherInstance(cfg.list[n], cfg.sections[cfg.list[n]], gen))

\* the state in which AlienLogger() has returned, for one starting
\* configuration: __init__ has set instance_id (_generate_instance_id) and
\* machine_name (socket.gethostname()) and load_config has run
FacadeStart(cfgs) ==
    \E cfg \in cfgs :
        /\ logger_config = cfg
        /\ default_log_level = get_level_by_name(ConfigLevelName(cfg))
        /\ heap = <<BuildDict(cfg, 0, Len(cfg.list))>>
        /\ dispatchers = 1
        /\ instance_id = "instance-id"
        /\ machine_name = "hostname"
        /\ pc = [t \in Threads |-> "idle"]
        /\ frame = [t \in Threads |-> Idle]
        /\ calls = <<>>
        /\ writes = <<>>
        /\ loads = <<>>

FacadeInit == FacadeStart(StartConfigs)

\* the calls the threads of Spec make: info with a str source and no exception
ThreadArgs == {Args("str", "Read input file", p, "None") : p \in ParamKinds}

Next ==
    \/ \E t \in Threads, a \in ThreadArgs : LogCall(t, "info", a)
    \/ \E t \in Threads : FanoutStep(t)
    \/ \E t \in Threads, cfg \in Configs : LoadConfig(t, cfg)
    \/ \E t \in Threads : InitDispatchersStep(t)

(***************************************************************************)
(* One thread using the instance, with every per-level method, every kind   *)
(* of argument and every kind of configuration file (SpecCalls).           *)
(***************************************************************************)
MainThread == 1

\* a call from a module (logger.info(__name__, "Read input file", params)) and
\* a call from an object reporting an exception (logger.error(self, "System
\* Started", params, ex)), with every kind of params
AllArgs ==
    {Args("str", "Read input file", p, "None") : p \in ParamKinds} \cup
    {Args("object", "System Started", p, "exception") : p \in ParamKinds}

\* default_log_level in the file: absent, a level name (as written or padded
\* and in capitals), a word that is no level, a letter found inside a key
LevelTexts == {s_trace, <<" ","W","A","R","N"," ">>, s_fatal,
               <<"v","e","r","b","o","s","e">>, <<"r">>}
FileLevelOptions == {LevelAbsent} \cup {[present |-> TRUE, text |-> x] : x \in LevelTexts}

\* every list of sections without the key, and every value of the key with
\* two sections that resolve
FileConfigs ==
    {ConfigOf(ks, LevelAbsent) : ks \in KindLists(SectionKinds)} \cup
    {ConfigOf(<<"custom", "null">>, lvl) : lvl \in FileLevelOptions}

CallsInit == FacadeStart(StartConfigs)

NextCalls ==
    \/ \E m \in LogMethods, a \in AllArgs : LogCall(MainThread, m, a)
    \/ FanoutStep(MainThread)
    \/ \E cfg \in FileConfigs : LoadConfig(MainThread, cfg)
    \/ InitDispatchersStep(MainThread)

(***************************************************************************)
(* get_logger() and the module global _GLOBAL_LOGGER.  The function takes  *)
(* no lock; a thread may be pre-empted between its statements, and         *)
(* AlienLogger() reads a file and prints.                                  *)
(***************************************************************************)
\* get_logger calls per thread
MaxGetCalls == 2

Logger(n) == [kind |-> "logger", id |-> n]

\* `if _GLOBAL_LOGGER:` (line 423)
GetLoggerTest(t) ==
    /\ gpc[t] = "idle"
    /\ Len(gret[t]) < MaxGetCalls
    /\ gpc' = [gpc EXCEPT ![t] = IF _GLOBAL_LOGGER # 0 THEN "return" ELSE "construct"]
    /\ UNCHANGED <<_GLOBAL_LOGGER, env_config_set, constructed, gnew, gret>>
    /\ UNCHANGED <<facadeVars, levelVars, formatVars>>

\* `AlienLogger()` (line 426): __init__ raises ValueError without the
\* environment variable, and returns a new instance otherwise
GetLoggerConstruct(t) ==
    /\ gpc[t] = "construct"
    /\ IF env_config_set
       THEN /\ constructed' = constructed + 1
            /\ gnew' = [gnew EXCEPT ![t] = constructed + 1]
            /\ gpc' = [gpc EXCEPT ![t] = "assign"]
            /\ gret' = gret
       ELSE /\ gret' = [gret EXCEPT ![t] = Append(@, Raised("ValueError"))]
            /\ gpc' = [gpc EXCEPT ![t] = "idle"]
            /\ UNCHANGED <<constructed, gnew>>
    /\ UNCHANGED <<_GLOBAL_LOGGER, env_config_set>>
    /\ UNCHANGED <<facadeVars, levelVars, formatVars>>

\* `_GLOBAL_LOGGER = ...` (line 426)
GetLoggerAssign(t) ==
    /\ gpc[t] = "assign"
    /\ _GLOBAL_LOGGER' = gnew[t]
    /\ gpc' = [gpc EXCEPT ![t] = "return"]
    /\ UNCHANGED <<env_config_set, constructed, gnew, gret>>
    /\ UNCHANGED <<facadeVars, levelVars, formatVars>>

\* `return _GLOBAL_LOGGER` (lines 424 and 427)
GetLoggerReturn(t) ==
    /\ gpc[t] = "return"
    /\ gret' = [gret EXCEPT ![t] = Append(@, Logger(_GLOBAL_LOGGER))]
    /\ gpc' = [gpc EXCEPT ![t] = "idle"]
    /\ UNCHANGED <<_GLOBAL_LOGGER, env_config_set, constructed, gnew>>
    /\ UNCHANGED <<facadeVars, levelVars, formatVars>>

\* the module is imported: _GLOBAL_LOGGER = None (line 413)
GlobalInit ==
    /\ _GLOBAL_LOGGER = 0
    /\ env_config_set \in BOOLEAN
    /\ constructed = 0
    /\ gpc = [t \in Threads |-> "idle"]
    /\ gnew = [t \in Threads |-> 0]
    /\ gret = [t \in Threads |-> <<>>]

NextSingleton ==
    \/ \E t \in Threads : GetLoggerTest(t)
    \/ \E t \in Threads : GetLoggerConstruct(t)
    \/ \E t \in Threads : GetLoggerAssign(t)
    \/ \E t \in Threads : GetLoggerReturn(t)

(***************************************************************************)
(* The level lookups applied to an argument.                               *)
(***************************************************************************)
\* s with the characters at the positions in mask in upper case
Cased(s, mask) == [i \in 1..Len(s) |-> IF i \in mask THEN UpperChar(s[i]) ELSE s[i]]

Pads == UNION {[1..n -> Whitespace] : n \in 0..MaxPad}

\* every spelling of a key: any letters in upper case, whitespace around it;
\* origin remembers the index of the key it spells
KeySpellings ==
    {[op |-> "by_name", text |-> a \o Cased(log_levels_by_name[k][1], mask) \o b,
      origin |-> k, id |-> 0] :
        <<k, mask>> \in UNION {{<<k, m>> : m \in SUBSET (1..Len(log_levels_by_name[k][1]))} :
                                 k \in 1..Len(log_levels_by_name)},
        a \in Pads, b \in Pads}

\* names that are no key: substrings of keys, other words, blanks, the empty string
OtherNames ==
    {<<"r">>, <<"w","a","r","n","i">>, <<"W","A","R","N","I">>, <<"n","o">>,
     <<"x">>, <<"v","e","r","b","o","s","e">>, <<"w","a","r","n","s">>,
     <<"i","n","f","o","s">>, <<" ">>, <<" ","r"," ">>, <<>>}

NameInputs ==
    KeySpellings \cup
    {[op |-> "by_name", text |-> s, origin |-> 0, id |-> 0] : s \in OtherNames}

IdInputs ==
    {[op |-> "by_id", text |-> <<>>, origin |-> 0, id |-> n] :
        n \in (0 - IdMargin)..(7 + IdMargin)}

LookupByName ==
    /\ lvl_in.op = "by_name"
    /\ lvl_out = Pending
    /\ lvl_out' = get_level_by_name(lvl_in.text)
    /\ UNCHANGED <<lvl_in, cmp_in, cmp_out, facadeVars, globalVars, formatVars>>

LookupById ==
    /\ lvl_in.op = "by_id"
    /\ lvl_out = Pending
    /\ lvl_out' = get_log_level_by_id(lvl_in.id)
    /\ UNCHANGED <<lvl_in, cmp_in, cmp_out, facadeVars, globalVars, formatVars>>

\* LogLevel objects: the names of the registry and one more, under every id
LevelNames == {log_levels_by_name[k][1] : k \in 1..Len(log_levels_by_name)} \cup {<<"x">>}
LevelObjects ==
    {Obj("LogLevel", LogLevel(n, i)) : n \in LevelNames, i \in 0..(7 + IdMargin)}

\* objects of other classes: ints, strs and None
OtherObjects ==
    {Obj("int", n) : n \in (0 - IdMargin)..(7 + IdMargin)} \cup
    {Obj("str", n) : n \in LevelNames} \cup {Obj("NoneType", 0)}

NoOperands == [self |-> Obj("NoneType", 0), other |-> Obj("NoneType", 0)]

\* self == other, with a LogLevel on the left
Compare ==
    /\ cmp_in # NoOperands
    /\ cmp_out = Pending
    /\ cmp_out' = __eq__(cmp_in.self, cmp_in.other)
    /\ UNCHANGED <<lvl_in, lvl_out, cmp_in, facadeVars, globalVars, formatVars>>

NoLookup == [op |-> "none", text |-> <<>>, origin |-> 0, id |-> 0]

LevelInit ==
    /\ lvl_out = Pending
    /\ cmp_out = Pending
    /\ \/ lvl_in \in NameInputs \cup IdInputs /\ cmp_in = NoOperands
       \/ /\ lvl_in = NoLookup
          /\ cmp_in \in [self : LevelObjects, other : LevelObjects \cup OtherObjects]

NextLevels == LookupByName \/ LookupById \/ Compare

(***************************************************************************)
(* BaseDispatcher.format_message (base_dispatcher.py).                     *)
(***************************************************************************)
T_INSTANCE_ID == "[[INSTANCE_ID]]"
T_MACHINE_NAME == "[[MACHINE_NAME]]"
T_DATE_STRING == "[[DATE_STRING]]"
T_CLASS_NAME == "[[CLASS_NAME]]"
T_LOG_MESSAGE_STATIC == "[[LOG_MESSAGE_STATIC]]"
T_LOG_PARAMS == "[[LOG_PARAMS]]"
T_EXCEPTION_TEXT == "[[EXCEPTION_TEXT]]"
T_LOG_LEVEL == "[[LOG_LEVEL]]"

\* the tokens the docstring of format_message lists
Tokens == {T_INSTANCE_ID, T_MACHINE_NAME, T_DATE_STRING, T_CLASS_NAME,
           T_LOG_MESSAGE_STATIC, T_LOG_PARAMS, T_EXCEPTION_TEXT, T_LOG_LEVEL}

\* str.replace(old, new) for a token old: every occurrence, left to right;
\* the text put in is not looked at again by the same call
RECURSIVE StrReplace(_, _, _)
StrReplace(s, old, new) ==
    IF s = <<>> THEN <<>>
    ELSE (IF Head(s) = old THEN new ELSE <<Head(s)>>) \o StrReplace(Tail(s), old, new)

\* the year the clock shows at the call
YearNow == <<"2", "0", "2", "6">>

\* datetime.strftime(format) for a format whose only directive is %Y: the
\* directive becomes the year, every other piece of the format stays
strftime(format) == StrReplace(format, "%Y", YearNow)

\* str(type(cls_name)) for an object
TypeText(cls) == <<"<", "c", "l", "a", "s", "s", " ", "'">> \o cls \o <<"'", ">">>

\* the classes isinstance(param_val, int) or isinstance(param_val, float)
\* accepts: bool is a subclass of int
NumberTypes == {"int", "bool", "float"}

\* one entry of params rendered: a datetime through strftime with the
\* message_format, an int or float bare, a dict (pretty-printed) and anything
\* else between double quotes
ParamValueTextAllQuoted(item, message_format) ==
    CASE item.type = "datetime" -> <<"\"">> \o strftime(message_format) \o <<"\"">>
      [] OTHER -> <<"\"">> \o item.text \o <<"\"">>

ParamValueText(item, message_format) ==
    CASE item.type = "datetime" -> <<"\"">> \o strftime(message_format) \o <<"\"">>
      [] item.type \in NumberTypes -> item.text
      [] OTHER -> <<"\"">> \o item.text \o <<"\"">>

\* the loop over message_object.params.items() (lines 102-116)
RECURSIVE ParamsMsg(_, _)
ParamsMsg(items, message_format) ==
    IF items = <<>> THEN <<>>
    ELSE Head(items).key \o <<"=">> \o ParamValueText(Head(items), message_format) \o <<" ">>
         \o ParamsMsg(Tail(items), message_format)

\* `not message_object.params`: None, {} and [] are falsy
ParamsFalsy(params) == params.type = "NoneType" \/ params.items = <<>>

EmptyDict == [type |-> "dict", items |-> <<>>]

\* what format_message gives: the string it returns and the params it leaves
\* in message_object, or the exception it raises
Rendered(text, params) == [kind |-> "str", text |-> text, params |-> params]

\* format_message, lines 64-120
format_message(message_object, datetime_format, log_utc, message_format, exception_format) ==
    IF message_object.ex # "None"
    THEN \* traceback.format_exception(value=ex): the first argument is missing
         Raised("TypeError")
    ELSE
    LET cls_name == IF message_object.class_name.type = "str"
                    THEN message_object.class_name.value
                    ELSE TypeText(message_object.class_name.value)
        msg1 == StrReplace(message_format, T_CLASS_NAME, cls_name)
    IN  IF datetime_format = <<>>
        THEN Raised("ValueError")
        ELSE
        LET msg2 == StrReplace(msg1, T_DATE_STRING, strftime(datetime_format))
            msg3 == StrReplace(msg2, T_LOG_LEVEL, message_object.level.name)
            msg4 == StrReplace(msg3, T_LOG_MESSAGE_STATIC, message_object.message_static)
            msg5 == StrReplace(msg4, T_INSTANCE_ID, message_object.instance_id)
            msg6 == StrReplace(msg5, T_MACHINE_NAME, message_object.machine_name)
            params == IF ParamsFalsy(message_object.params)
                      THEN EmptyDict ELSE message_object.params
            params_msg == ParamsMsg(params.items, message_format)
        IN  Rendered(StrReplace(msg6, T_LOG_PARAMS, StrStrip(params_msg)), params)

\* ---- the arguments format_message is applied to ----
\* message_format: up to MaxTemplate pieces, each a token or a character
TemplatePieces == Tokens \cup {"-"}
Templates == UNION {[1..n -> TemplatePieces] : n \in 1..MaxTemplate}

FmtLevels == {LogLevel(s_trace, 0), LogLevel(s_warn, 4), LogLevel(s_warning, 4)}

\* log_source: a module name, an object, a str that reads like a token
FmtSources == {Obj("str", <<"m", "o", "d">>), Obj("object", <<"C">>),
               Obj("str", <<T_LOG_LEVEL>>)}

\* log_message_static: plain text, and texts that read like a token
FmtStatics == {<<"R", "e", "a", "d">>, <<T_INSTANCE_ID>>, <<T_LOG_LEVEL>>}

\* log_params: None, {}, [] and {"n": 1, "s": "x"}
FmtParams ==
    {[type |-> "NoneType", items |-> <<>>], EmptyDict, [type |-> "list", items |-> <<>>],
     [type |-> "dict", items |-> <<[key |-> <<"n">>, type |-> "int", text |-> <<"1">>],
                                   [key |-> <<"s">>, type |-> "str", text |-> <<"x">>]>>]}

\* entries of a params dict: key, class of the value and str(value) (for a
\* dict pprint.pformat(value), for a datetime its own text is not used)
ParamItem(key, type, text) == [key |-> key, type |-> type, text |-> text]

ParamItems ==
    {ParamItem(<<"p", "a", "t", "h">>, "str", <<"/", "t", "m", "p", "/", "f">>),
     ParamItem(<<"s", "i", "z", "e">>, "int", <<"4", "2">>),
     ParamItem(<<"p", "c", "n", "t">>, "float", <<"0", ".", "5">>),
     ParamItem(<<"o", "k">>, "bool", <<"T", "r", "u", "e">>),
     ParamItem(<<"n", "o", "t", "e">>, "str", <<" ", "a", " ", "b", " ">>),
     ParamItem(<<"t", "o", "k">>, "str", <<T_LOG_LEVEL>>),
     ParamItem(<<"c", "f", "g">>, "dict", <<"{", "'", "k", "'", ":", " ", "1", "}">>),
     ParamItem(<<"n", "o", "n", "e">>, "NoneType", <<"N", "o", "n", "e">>),
     ParamItem(<<"w", "h", "e", "n">>, "datetime", <<>>)}

\* dicts of up to MaxParams entries with distinct keys, in every insertion order
ParamDicts ==
    {[type |-> "dict", items |-> items] :
        items \in {q \in UNION {[1..n -> ParamItems] : n \in 1..MaxParams} :
                        \A i, j \in DOMAIN q : i # j => q[i] # q[j]}}

FmtDateFormats == {<<"%Y">>, <<>>}

\* exception_format of ConsoleDispatcher: 'exception="\n[[EXCEPTION_TEXT]]"'
ExceptionFormat == <<"e", "x", "=", "\"", "\n", T_EXCEPTION_TEXT, "\"">>

\* every kind of message with the params of FmtParams, and one plain message
\* with every dict of ParamDicts
FmtInputs ==
    [message_object : [level : FmtLevels, class_name : FmtSources,
                       message_static : FmtStatics, params : FmtParams,
                       ex : {"None", "exception"},
                       instance_id : {<<"i", "d">>}, machine_name : {<<"h">>}],
     datetime_format : FmtDateFormats, log_utc : BOOLEAN,
     message_format : Templates, exception_format : {ExceptionFormat}]
    \cup
    [message_object : [level : {LogLevel(s_warn, 4)}, class_name : {Obj("str", <<"m", "o", "d">>)},
                       message_static : {<<"R", "e", "a", "d">>}, params : ParamDicts,
                       ex : {"None"},
                       instance_id : {<<"i", "d">>}, machine_name : {<<"h">>}],
     datetime_format : {<<"%Y">>}, log_utc : {FALSE},
     message_format : Templates, exception_format : {ExceptionFormat}]

NoFormat == [op |-> "none"]

Format ==
    /\ fmt_in # NoFormat
    /\ fmt_out = Pending
    /\ fmt_out' = format_message(fmt_in.message_object, fmt_in.datetime_format,
                                 fmt_in.log_utc, fmt_in.message_format,
                                 fmt_in.exception_format)
    /\ UNCHANGED <<fmt_in, facadeVars, globalVars, levelVars>>

FormatInit ==
    /\ fmt_in \in FmtInputs
    /\ fmt_out = Pending

NextFormat == Format

(***************************************************************************)
(* The specifications.  Each runs one part (Next, NextSingleton and        *)
(* NextLevels above); the variables of the other parts stay at a fixed     *)
(* value.                                                                  *)
(***************************************************************************)
FacadeParked ==
    /\ logger_config = ConfigOf(<<"null">>, LevelAbsent)
    /\ default_log_level = None
    /\ heap = <<>>
    /\ dispatchers = 0
    /\ pc = [t \in Threads |-> "idle"]
    /\ frame = [t \in Threads |-> Idle]
    /\ calls = <<>>
    /\ writes = <<>>
    /\ loads = <<>>
    /\ instance_id = "UNKNOWN"
    /\ machine_name = "Unknown"

GlobalParked ==
    /\ _GLOBAL_LOGGER = 0
    /\ env_config_set = FALSE
    /\ constructed = 0
    /\ gpc = [t \in Threads |-> "idle"]
    /\ gnew = [t \in Threads |-> 0]
    /\ gret = [t \in Threads |-> <<>>]

LevelParked ==
    /\ lvl_in = NoLookup
    /\ lvl_out = Pending
    /\ cmp_in = NoOperands
    /\ cmp_out = Pending

FormatParked ==
    /\ fmt_in = NoFormat
    /\ fmt_out = Pending

Init == FacadeInit /\ GlobalParked /\ LevelParked /\ FormatParked
Spec == Init /\ [][Next]_vars

InitCalls == CallsInit /\ GlobalParked /\ LevelParked /\ FormatParked
SpecCalls == InitCalls /\ [][NextCalls]_vars

InitSingleton == GlobalInit /\ FacadeParked /\ LevelParked /\ FormatParked
SpecSingleton == InitSingleton /\ [][NextSingleton]_vars

InitLevels == LevelInit /\ FacadeParked /\ GlobalParked /\ FormatParked
SpecLevels == InitLevels /\ [][NextLevels]_vars

InitFormat == FormatInit /\ FacadeParked /\ GlobalParked /\ LevelParked
SpecFormat == InitFormat /\ [][NextFormat]_vars

(***************************************************************************)
(* What the calls did, read off the records.                               *)
(***************************************************************************)
CallIds == 1..Len(calls)
WriteIds == 1..Len(writes)
Finished(c) == calls[c].status # "running"

\* the dispatchers a call invoked write_message on, in order
Invoked(c) ==
    LET ws == SelectSeq(writes, LAMBDA w : w.call = c)
    IN  [i \in 1..Len(ws) |-> ws[i].disp]

\* params that are neither absent or empty nor a mapping
NeitherEmptyNorMapping(p) == p = "list"

\* the dispatcher sets a configuration run to its end installs: the one the
\* instance started with, and the one of each load whose sections all resolve
CompleteSets ==
    {DictValues(heap[1])} \cup
    {DictValues(BuildDict(loads[g].config, g, Len(loads[g].config.list))) :
        g \in {h \in 1..Len(loads) :
                 \A n \in 1..Len(loads[h].config.list) :
                    loads[h].config.sections[loads[h].config.list[n]] \in ImportableKinds}}

(***************************************************************************)
(* Claims on AlienLogger (Spec).                                           *)
(***************************************************************************)

\* C1: when write_message of a dispatcher raises during a call's fan-out, every
\* dispatcher after it in the set the call began with is still invoked with
\* that call's message.
C1_FailureIsolation ==
    \A c \in CallIds :
        Finished(c) =>
            \A i \in 1..Len(calls[c].snapshot) :
                (\E w \in WriteIds :
                    /\ writes[w].call = c
                    /\ writes[w].disp = calls[c].snapshot[i]
                    /\ writes[w].result = "raise")
                => \A j \in (i + 1)..Len(calls[c].snapshot) :
                      \E w \in WriteIds :
                          /\ writes[w].call = c
                          /\ writes[w].disp = calls[c].snapshot[j]

\* C2: a log call in which a dispatcher's write_message raised still returns
\* normally: the exception never reaches the caller of the log method.
C2_SinkFailureNotPropagated ==
    \A c \in CallIds :
        (\E w \in WriteIds : writes[w].call = c /\ writes[w].result = "raise")
        => calls[c].status # "raised"

\* C3: a finished log call with valid params, begun while no configuration was
\* being loaded, has invoked write_message exactly once on each dispatcher of
\* the configured set, in the order of the set (the order of the names in
\* common.dispatchers).
C3_OncePerDispatcherInOrder ==
    \A c \in CallIds :
        (Finished(c) /\ calls[c].settled /\ ~NeitherEmptyNorMapping(calls[c].params))
        => Invoked(c) = calls[c].snapshot

\* C4: a log call whose params is neither absent or empty nor a mapping ends
\* with ValueError raised to the caller, and write_message is invoked on no
\* dispatcher for it.  (Empty is what Python's truth test calls empty.)
C4_InvalidParamsRejected ==
    \A c \in CallIds :
        NeitherEmptyNorMapping(calls[c].params) =>
            /\ calls[c].status = "raised"
            /\ calls[c].exc = "ValueError"
            /\ \A w \in WriteIds : writes[w].call # c

\* C4, witness: such a call was made on an instance with dispatchers installed,
\* after other calls had been written out
C4_Witness ==
    \E c \in CallIds :
        /\ NeitherEmptyNorMapping(calls[c].params)
        /\ calls[c].status = "raised"
        /\ Len(calls[c].snapshot) = MaxDispatchers
        /\ Len(writes) > 0

\* C5: at every moment the dict bound to self.dispatchers holds a complete set:
\* the whole set of the configuration before, or the whole set of a
\* configuration loaded since.
C5_AtomicReplacement ==
    DictValues(heap[dispatchers]) \in CompleteSets

\* C6: a log call that began while another thread was loading a configuration
\* and returned has delivered its message to exactly the dispatchers of one
\* complete set.
C6_ConsistentSnapshot ==
    \A c \in CallIds :
        (calls[c].load = 0 /\ ~calls[c].settled /\ calls[c].status = "returned")
        => Invoked(c) \in CompleteSets

\* C7: the writes of two log calls are never interleaved: between two writes
\* of one call there is no write of another call.
C7_FanoutExclusive ==
    \A i, j, k \in WriteIds :
        (i < j /\ j < k /\ writes[i].call = writes[k].call)
        => writes[j].call = writes[i].call

\* C15: a load_config whose loop comes to a name without a section, or with a
\* section without dispatcher_class_name, ends with ValueError raised to its
\* caller, and the error names that dispatcher.
C15_MissingSectionRaises ==
    \A g \in 1..Len(loads) :
        loads[g].hit.kind \in {"missing", "noclass"} =>
            /\ loads[g].status = "raised"
            /\ loads[g].exc = "ValueError"
            /\ loads[g].named = loads[g].hit.name

\* C15, witness: a load_config stopped at its last name, which has no section,
\* after the dispatchers before it were installed
C15_Witness ==
    \E g \in 1..Len(loads) :
        /\ loads[g].hit = [name |-> MaxDispatchers, kind |-> "missing"]
        /\ loads[g].status = "raised"
        /\ loads[g].named = MaxDispatchers
        /\ Len(heap[g + 1]) = MaxDispatchers - 1

\* C16: a load_config that returned made exactly one log call, at info with
\* "Logger Initialized", and that call invoked write_message on every
\* dispatcher of the set built from the loaded configuration; a load_config
\* stopped by a dispatcher name of its list made none.
C16_OneSelfLogPerConfigure ==
    \A g \in 1..Len(loads) :
        /\ loads[g].status = "returned" =>
              \E c \in CallIds :
                  /\ calls[c].load = g
                  /\ \A c2 \in CallIds : calls[c2].load = g => c2 = c
                  /\ calls[c].level = LogLevel(s_info, 2)
                  /\ calls[c].static = "Logger Initialized"
                  /\ Invoked(c) = DictValues(BuildDict(loads[g].config, g,
                                                       Len(loads[g].config.list)))
        /\ (loads[g].status = "raised" /\ loads[g].hit.kind # "none") =>
              \A c \in CallIds : calls[c].load # g

(***************************************************************************)
(* Claims on the per-level methods (SpecCalls).                            *)
(***************************************************************************)
\* the level each method name stands for
LevelOfMethod ==
    [trace |-> LogLevel(s_trace, 0), debug |-> LogLevel(s_debug, 1),
     info |-> LogLevel(s_info, 2), notice |-> LogLevel(s_notice, 3),
     warning |-> LogLevel(s_warning, 4), warn |-> LogLevel(s_warning, 4),
     error |-> LogLevel(s_error, 5), critical |-> LogLevel(s_critical, 6),
     fatal |-> LogLevel(s_fatal, 7)]

\* C14: whatever the default level of the instance and the level of the call
\* (below the default or not), a finished log call with valid params has
\* invoked write_message, with a message of its level, on every dispatcher
\* configured when it began.
C14_NoLevelFilter ==
    \A c \in CallIds :
        (calls[c].load = 0 /\ Finished(c) /\ ~NeitherEmptyNorMapping(calls[c].params))
        => \A i \in 1..Len(calls[c].snapshot) :
              \E w \in WriteIds :
                  /\ writes[w].call = c
                  /\ writes[w].disp = calls[c].snapshot[i]
                  /\ writes[w].msg.level = LevelOfMethod[calls[c].method]

\* C17: a finished call of a per-level method with valid params has handed
\* every configured dispatcher a Message whose level is the level of the method
\* name (warning, id 4, for both warn and warning) and whose class_name,
\* message_static, params and ex are the arguments of the call.
C17_EnvelopeOfTheCall ==
    \A c \in CallIds :
        (calls[c].load = 0 /\ Finished(c) /\ ~NeitherEmptyNorMapping(calls[c].params))
        => \A i \in 1..Len(calls[c].snapshot) :
              \E w \in WriteIds :
                  /\ writes[w].call = c
                  /\ writes[w].disp = calls[c].snapshot[i]
                  /\ writes[w].msg.level = LevelOfMethod[calls[c].method]
                  /\ writes[w].msg.class_name = calls[c].source
                  /\ writes[w].msg.message_static = calls[c].static
                  /\ writes[w].msg.params = calls[c].params
                  /\ writes[w].msg.ex = calls[c].ex

\* C18: no step of a log call (its start, a write_message, its end) changes
\* instance_id, machine_name, default_log_level, the dict bound to
\* self.dispatchers or what a dict holds.
C18_LogCallsReadOnly ==
    [][(calls' # calls \/ writes' # writes)
       => UNCHANGED <<instance_id, machine_name, default_log_level, dispatchers, heap>>]_vars

\* C18, witness: two log calls have ended, one that passed params and an
\* exception and one that wrote to every dispatcher
C18_Witness ==
    \E c, c2 \in UserCalls :
        /\ c # c2
        /\ Finished(c) /\ Finished(c2)
        /\ calls[c].ex = "exception" /\ calls[c].params = "dict"
        /\ calls[c2].status = "returned" /\ Len(Invoked(c2)) = MaxDispatchers

\* C19: every write_message of a NullDispatcher returns True, emits nothing
\* and does not run format_message.
C19_NullWriteReportsSuccess ==
    \A w \in WriteIds :
        writes[w].disp.kind = "null" =>
            /\ writes[w].result = "True"
            /\ ~writes[w].emitted
            /\ ~writes[w].rendered

(***************************************************************************)
(* Claim on get_logger (SpecSingleton).                                    *)
(***************************************************************************)

\* C8: at most one AlienLogger is ever constructed, and every get_logger call
\* that returns gives the same instance.
C8_InitializedOnce ==
    /\ constructed <= 1
    /\ \A t, u \in Threads : \A i \in 1..Len(gret[t]), j \in 1..Len(gret[u]) :
          (gret[t][i].kind = "logger" /\ gret[u][j].kind = "logger")
          => gret[t][i].id = gret[u][j].id

(***************************************************************************)
(* Claims on the level registry (SpecLevels).                              *)
(***************************************************************************)

\* C9: get_log_level_by_id returns, for every id in 0..7, the level whose
\* level_id is that id (for 0 the trace level, not None).
C9_LookupById ==
    (lvl_in.op = "by_id" /\ lvl_out # Pending /\ lvl_in.id \in 0..7)
    => (lvl_out.kind = "level" /\ lvl_out.level.level_id = lvl_in.id)

\* the numeric id of the i-th level name: trace(0), debug(1), info(2),
\* notice(3), warning(4), warn(4), error(5), critical(6), fatal(7)
NameId == <<0, 1, 2, 3, 4, 4, 5, 6, 7>>

\* C10: get_level_by_name, given a level name spelled with any letters in
\* upper case and with whitespace around it, returns the level with that
\* name's numeric id.
C10_LookupByNameNormalizes ==
    (lvl_in.op = "by_name" /\ lvl_in.origin # 0 /\ lvl_out # Pending)
    => (lvl_out.kind = "level" /\ lvl_out.level.level_id = NameId[lvl_in.origin])

\* C10, witness: a name found although it was given padded on both sides and
\* with upper-case letters
C10_Witness ==
    /\ lvl_in.op = "by_name"
    /\ lvl_in.origin # 0
    /\ lvl_out.kind = "level"
    /\ Len(lvl_in.text) = Len(log_levels_by_name[lvl_in.origin][1]) + 2 * MaxPad
    /\ lvl_in.text[1] \in Whitespace
    /\ lvl_in.text[Len(lvl_in.text)] \in Whitespace
    /\ \E i \in 1..Len(lvl_in.text) : \E k \in 1..26 : lvl_in.text[i] = UpperLetters[k]

\* C11: a lookup that finds nothing returns None: get_log_level_by_id for an id
\* outside 0..7, get_level_by_name for a name that spells no level; it raises
\* nothing and returns no level.
C11_LookupMissReturnsNone ==
    /\ (lvl_in.op = "by_id" /\ lvl_in.id \notin 0..7 /\ lvl_out # Pending)
       => lvl_out = None
    /\ (lvl_in.op = "by_name" /\ lvl_in.origin = 0 /\ lvl_out # Pending)
       => lvl_out = None

\* C12: self == other on two LogLevel objects is True exactly when their
\* level_id are equal, whatever their names.
C12_EqualByIdOnly ==
    (cmp_out # Pending /\ cmp_in.other.type = "LogLevel")
    => cmp_out = Returned("bool", cmp_in.self.value.level_id = cmp_in.other.value.level_id)

\* C12, witness: "warn" and "warning", both with id 4, compared equal
C12_Witness ==
    /\ cmp_in.self = Obj("LogLevel", LogLevel(s_warn, 4))
    /\ cmp_in.other = Obj("LogLevel", LogLevel(s_warning, 4))
    /\ cmp_out = Returned("bool", TRUE)

\* C13: self == other with an other that is no LogLevel raises an exception
\* to the code comparing; it returns nothing.
C13_MismatchRaises ==
    (cmp_out # Pending /\ cmp_in.other.type # "LogLevel")
    => cmp_out.kind = "raise"

(***************************************************************************)
(* Claim on format_message (SpecFormat).                                   *)
(***************************************************************************)
\* a template that asks for the level and for the static alert
AsksForLevelAndStatic(message_format) ==
    /\ \E i \in 1..Len(message_format) : message_format[i] = T_LOG_LEVEL
    /\ \E i \in 1..Len(message_format) : message_format[i] = T_LOG_MESSAGE_STATIC

\* C20: with empty params, no exception and a template that holds
\* [[LOG_LEVEL]] and [[LOG_MESSAGE_STATIC]], format_message returns a string
\* that contains the name of the level and the static alert as given, and in
\* which none of the tokens is left ([[EXCEPTION_TEXT]] apart, which has
\* nothing to stand for without an exception).
C20_RenderHoldsLevelAndAlert ==
    (/\ fmt_in # NoFormat
     /\ fmt_out # Pending
     /\ ParamsFalsy(fmt_in.message_object.params)
     /\ fmt_in.message_object.ex = "None"
     /\ fmt_in.datetime_format # <<>>
     /\ AsksForLevelAndStatic(fmt_in.message_format))
    => /\ fmt_out.kind = "str"
       /\ StrIn(fmt_in.message_object.level.name, fmt_out.text)
       /\ StrIn(fmt_in.message_object.message_static, fmt_out.text)
       /\ \A i \in 1..Len(fmt_out.text) : fmt_out.text[i] \notin Tokens \ {T_EXCEPTION_TEXT}


\* ---- helpers of C21 ----
\* a message whose own fields hold no token, without an exception, rendered
\* with a datetime_format
PlainMessage(in) ==
    /\ in.message_object.ex = "None"
    /\ in.message_object.class_name = Obj("str", <<"m", "o", "d">>)
    /\ in.message_object.message_static = <<"R", "e", "a", "d">>
    /\ in.datetime_format = <<"%Y">>

\* the values C21 speaks of: numbers bare, strings and other values quoted
ClaimedTypes == {"int", "float", "str", "dict", "NoneType"}

ExpectedPair(item) ==
    item.key \o <<"=">> \o
    (IF item.type \in {"int", "float"} THEN item.text
     ELSE <<"\"">> \o item.text \o <<"\"">>)

\* the pairs in insertion order, one space between two of them
RECURSIVE ExpectedParams(_)
ExpectedParams(items) ==
    IF items = <<>> THEN <<>>
    ELSE IF Len(items) = 1 THEN ExpectedPair(items[1])
    ELSE ExpectedPair(items[1]) \o <<" ">> \o ExpectedParams(Tail(items))

\* what a piece of the template of a plain message stands for
ExpectedPiece(piece, in) ==
    CASE piece = T_LOG_PARAMS -> ExpectedParams(in.message_object.params.items)
      [] piece = T_CLASS_NAME -> <<"m", "o", "d">>
      [] piece = T_DATE_STRING -> <<"2", "0", "2", "6">>
      [] piece = T_LOG_LEVEL -> in.message_object.level.name
      [] piece = T_LOG_MESSAGE_STATIC -> <<"R", "e", "a", "d">>
      [] piece = T_INSTANCE_ID -> in.message_object.instance_id
      [] piece = T_MACHINE_NAME -> in.message_object.machine_name
      [] OTHER -> <<piece>>

RECURSIVE ExpectedText(_, _)
ExpectedText(template, in) ==
    IF template = <<>> THEN <<>>
    ELSE ExpectedPiece(Head(template), in) \o ExpectedText(Tail(template), in)

HasParamsToken(in) == \E i \in DOMAIN in.message_format : in.message_format[i] = T_LOG_PARAMS

IsPrefix(a, b) == Len(a) <= Len(b) /\ SubSeq(b, 1, Len(a)) = a

\* the same call for a message without the error
WithoutError(in) ==
    format_message([in.message_object EXCEPT !.ex = "None"], in.datetime_format,
                   in.log_utc, in.message_format, in.exception_format)

\* C22: for a message with an error the output of render is the rendered
\* message part followed by the text of the exception template (which ends
\* with a double quote, after the stack trace); for a message without an error nothing of the
\* exception template (its line break) is in the output
C22_ExceptionTemplateAppended ==
    (fmt_out # Pending /\ fmt_in.datetime_format # <<>>)
    => IF fmt_in.message_object.ex # "None"
       THEN /\ fmt_out.kind = "str"
            /\ \/ WithoutError(fmt_in).kind # "str"
               \/ /\ IsPrefix(WithoutError(fmt_in).text, fmt_out.text)
                  /\ Len(fmt_out.text) > Len(WithoutError(fmt_in).text)
            /\ fmt_out.text[Len(fmt_out.text)] = "\""
            /\ \A i \in 1..Len(fmt_out.text) : fmt_out.text[i] # T_EXCEPTION_TEXT
       ELSE /\ fmt_out.kind = "str"
            /\ \A i \in 1..Len(fmt_out.text) : fmt_out.text[i] # "\n"


\* ---- helpers of C23 ----
\* the stack trace of the exception of the inputs: an exception whose message
\* reads like a token
TraceText == <<"E", "r", "r", "o", "r", ":", " ", T_LOG_LEVEL, "\n">>

Occurs(part, text) ==
    \E i \in 1..(Len(text) - Len(part) + 1) : SubSeq(text, i, i + Len(part) - 1) = part

\* C23: the stack trace of the error is in the output of render as captured,
\* a token it holds included
C23_TraceNotResubstituted ==
    (fmt_out # Pending /\ fmt_in.datetime_format # <<>> /\ fmt_in.message_object.ex # "None")
    => /\ fmt_out.kind = "str"
       /\ Occurs(TraceText, fmt_out.text)


\* ---- helpers of C24 ----
\* a template of free text and [[LOG_MESSAGE_STATIC]] only
StaticOnlyTemplate(template) ==
    /\ \A i \in DOMAIN template : template[i] \in {"-", T_LOG_MESSAGE_STATIC}
    /\ \E i \in DOMAIN template : template[i] = T_LOG_MESSAGE_STATIC

\* the template with the static alert at each [[LOG_MESSAGE_STATIC]]
RECURSIVE StaticPutIn(_, _)
StaticPutIn(template, static) ==
    IF template = <<>> THEN <<>>
    ELSE (IF Head(template) = T_LOG_MESSAGE_STATIC THEN static ELSE <<Head(template)>>)
         \o StaticPutIn(Tail(template), static)

\* C24: the output of render holds the static alert exactly as given at the
\* position of [[LOG_MESSAGE_STATIC]], also when the alert reads like a token
C24_StaticAlertVerbatim ==
    (/\ fmt_out # Pending
     /\ fmt_in.message_object.ex = "None"
     /\ fmt_in.datetime_format # <<>>
     /\ StaticOnlyTemplate(fmt_in.message_format))
    => /\ fmt_out.kind = "str"
       /\ fmt_out.text = StaticPutIn(fmt_in.message_format, fmt_in.message_object.message_static)


\* ---- helper of C25 ----
\* the trimmed, lowercased name is not empty and is part of a key
PartOfAKey(text) ==
    LET name == StrLower(StrStrip(text))
    IN  /\ name # <<>>
        /\ \E k \in 1..Len(log_levels_by_name) : StrIn(name, log_levels_by_name[k][1])

\* C25: lookup_by_name returns a Level for every name whose trimmed,
\* lowercased form is a non-empty part of a key, a key itself or not
C25_SubstringReturnsLevel ==
    (lvl_in.op = "by_name" /\ lvl_out # Pending /\ PartOfAKey(lvl_in.text))
    => lvl_out.kind = "level"


\* C26: every dispatcher of a fan-out receives the envelope as the first one
\* received it from the facade: no write or render changes a field of it
C26_EnvelopeNotModified ==
    \A w1, w2 \in WriteIds :
        writes[w1].call = writes[w2].call => writes[w1].msg = writes[w2].msg


\* ---- helpers of C27 ----
\* the load_config call that ran last has returned
LastLoadReturned == loads # <<>> /\ loads[Len(loads)].status = "returned"

\* the ids of the levels by the names a configuration may give (C27)
DefinedLevelIds == 0..7

\* C27: after a configure that returned, the default level of the facade is
\* one of the defined levels: the one the configuration names, info when it
\* names none
C27_DefaultLevelDefined ==
    (LastLoadReturned /\ pc[MainThread] = "idle")
    => /\ default_log_level.kind = "level"
       /\ default_log_level.level.level_id \in DefinedLevelIds
       /\ ~loads[Len(loads)].config.default_log_level.present
              => default_log_level.level.level_id = 2


\* C28: instance_id and machine_name of the facade are the same after every
\* step (log calls and reloads), and every envelope handed to a dispatcher,
\* the one of the "Logger Initialized" self-log included, carries them
C28_IdentityFixed ==
    /\ [](\A w \in WriteIds : /\ writes[w].msg.instance_id = instance_id
                              /\ writes[w].msg.machine_name = machine_name)
    /\ [][instance_id' = instance_id /\ machine_name' = machine_name]_vars

\* a reload has returned and both its self-log and a log call of the
\* application have reached a dispatcher with the identity of the facade
C28_Witness ==
    /\ LastLoadReturned
    /\ \E w1, w2 \in WriteIds :
          /\ calls[writes[w1].call].load # 0
          /\ writes[w1].msg.message_static = "Logger Initialized"
          /\ calls[writes[w2].call].load = 0
          /\ writes[w1].msg.instance_id = instance_id
          /\ writes[w2].msg.instance_id = instance_id
          /\ writes[w1].msg.machine_name = machine_name
          /\ writes[w2].msg.machine_name = machine_name

=============================================================================
